---- MODULE Spec2Model ----
(***************************************************************************)
(* A model of src/utils.py: the cross-validated grid search (gridsearch),  *)
(* the progress-bar patch of joblib (tqdm_joblib), the stratified k-fold   *)
(* predictor (StratifiedKFoldTestPredictions) and confusion_matrix.        *)
(*                                                                         *)
(* Conventions.  Sample positions are 1..n (Python: 0..n-1); index arrays  *)
(* are sorted arrays of distinct positions and are kept as sets.  A dict   *)
(* is the sequence of its <<key, value>> items.  A float is a record       *)
(* [nan, num, den]: the rational num/den, or NaN.  best_index_ is the      *)
(* 0-based value numpy returns.  Library calls (sklearn, joblib, numpy,    *)
(* pandas) are modelled by what the library does at the call site; the     *)
(* fold allocation is that of scikit-learn 0.22 to 1.0, the releases that  *)
(* still have sklearn.utils.fixes._joblib_parallel_args.  Definitions      *)
(* whose name ends in a lower-case suffix after a definition's name        *)
(* (ArgMax_last, ClfSlot_shared, ...) are faulty variants of it, kept to   *)
(* show that the properties below tell the code from its likely slips.     *)
(***************************************************************************)
EXTENDS Integers, Sequences, FiniteSets, TLC

\* ------------------------------------------------------------------------
\* Bounds of the model
\* ------------------------------------------------------------------------
MaxFits == 2
NCores == 2
MaxLen == 5

\* ------------------------------------------------------------------------
\* Values
\* ------------------------------------------------------------------------
\* random_state: None, or an integer seed.
None == [seeded |-> FALSE, seed |-> 0]
Seed(n) == [seeded |-> TRUE, seed |-> n]

Num(n, d) == [nan |-> FALSE, num |-> n, den |-> d]
NaN == [nan |-> TRUE, num |-> 0, den |-> 1]

\* IEEE comparisons: every comparison with NaN is false.
FloatLe(a, b) == ~a.nan /\ ~b.nan /\ a.num * b.den <= b.num * a.den
FloatGe(a, b) == FloatLe(b, a)
FloatEq(a, b) == FloatLe(a, b) /\ FloatLe(b, a)

Range(s) == {s[i] : i \in DOMAIN s}

RECURSIVE SumSeq(_)
SumSeq(s) == IF s = <<>> THEN 0 ELSE Head(s) + SumSeq(Tail(s))

SetMin(S) == CHOOSE m \in S : \A x \in S : m <= x
SetMax(S) == CHOOSE m \in S : \A x \in S : x <= m

\* np.mean of a list of floats whose denominators are 1.
Mean(scores) ==
    IF \E i \in DOMAIN scores : scores[i].nan THEN NaN
    ELSE Num(SumSeq([i \in DOMAIN scores |-> scores[i].num]), Len(scores))

\* np.std, kept as its square (the population variance) so that it stays
\* rational: (n * sum(s^2) - sum(s)^2) / n^2.
Std(scores) ==
    IF \E i \in DOMAIN scores : scores[i].nan THEN NaN
    ELSE LET n == Len(scores)
             s1 == SumSeq([i \in DOMAIN scores |-> scores[i].num])
             s2 == SumSeq([i \in DOMAIN scores |-> scores[i].num * scores[i].num])
         IN  Num(n * s2 - s1 * s1, n * n)

\* np.argmax over a non-empty list of floats, as numpy scans it: start with
\* element 0, stop at the first NaN, replace the running maximum by every
\* element that is not <= it.  Returns the 0-based index.
RECURSIVE ArgMaxScan(_, _, _)
ArgMaxScan(a, i, best) ==
    IF a[best].nan \/ i > Len(a) THEN best - 1
    ELSE IF ~FloatLe(a[i], a[best]) THEN ArgMaxScan(a, i + 1, i)
    ELSE ArgMaxScan(a, i + 1, best)

\* Faulty variant: the last occurrence of the maximum.
ArgMax_last(a) ==
    Len(a) - 1 - ArgMaxScan([i \in DOMAIN a |-> a[Len(a) + 1 - i]], 2, 1)

ArgMax(a) == ArgMaxScan(a, 2, 1)

\* ------------------------------------------------------------------------
\* sklearn.model_selection.ParameterGrid
\* ------------------------------------------------------------------------
\* Parameter names, in sorted order.
Names == <<"C", "gamma">>

Rank(name) == CHOOSE r \in DOMAIN Names : Names[r] = name

Keys(items) == {items[i][1] : i \in DOMAIN items}

\* sorted(grid.items())
SortedItems(grid) ==
    [r \in 1..Len(grid) |->
        LET name == CHOOSE k \in Keys(grid) :
                        Cardinality({q \in Keys(grid) : Rank(q) < Rank(k)}) = r - 1
        IN  CHOOSE it \in Range(grid) : it[1] = name]

\* itertools.product(*lists): the first list varies slowest.
RECURSIVE Product(_)
Product(lists) ==
    IF lists = <<>> THEN << <<>> >>
    ELSE LET rest == Product(Tail(lists))
             n == Len(rest)
             m == Len(Head(lists))
         IN  [p \in 1..(m * n) |->
                <<Head(lists)[((p - 1) \div n) + 1]>> \o rest[((p - 1) % n) + 1]]

\* Faulty variant: the value lists zipped instead of multiplied.
ParameterGrid_zip(grid) ==
    LET items == SortedItems(grid)
        m == IF items = <<>> THEN 1
             ELSE SetMin({Len(items[k][2]) : k \in DOMAIN items})
    IN  [p \in 1..m |-> [k \in DOMAIN items |-> <<items[k][1], items[k][2][p]>>]]

\* list(ParameterGrid(grid)): the dicts of the Cartesian product, keys
\* sorted, the last key varying fastest; one empty dict for an empty grid.
ParameterGrid(grid) ==
    LET items == SortedItems(grid)
        tuples == Product([k \in DOMAIN items |-> items[k][2]])
    IN  [p \in DOMAIN tuples |->
            [k \in DOMAIN items |-> <<items[k][1], tuples[p][k]>>]]

\* ------------------------------------------------------------------------
\* sklearn.model_selection.StratifiedKFold
\* ------------------------------------------------------------------------
Classes(y) == Range(y)

NClasses(y) == Cardinality(Classes(y))

\* The position at which class c first appears in y.
FirstAppearance(y, c) == SetMin({i \in DOMAIN y : y[i] = c})

\* y_encoded: every label replaced by the number of its class, the classes
\* numbered 0, 1, ... in the order of their first appearance in y.
Encoded(y) ==
    [i \in DOMAIN y |->
        Cardinality({c \in Classes(y) :
                        FirstAppearance(y, c) < FirstAppearance(y, y[i])})]

\* np.bincount(y_encoded)[k]
ClassCount(y, k) == Cardinality({i \in DOMAIN y : Encoded(y)[i] = k})

\* y_order = np.sort(y_encoded)
SortedLabels(y) ==
    LET e == Encoded(y)
    IN  [p \in DOMAIN y |->
            CHOOSE k \in 0..(NClasses(y) - 1) :
                /\ Cardinality({i \in DOMAIN y : e[i] < k}) < p
                /\ p <= Cardinality({i \in DOMAIN y : e[i] <= k})]

\* allocation[i, k]: how many samples of encoded class k fold i (0-based)
\* tests: the count of k in y_order[i::n_splits].
Allocation(y, n_splits, i, k) ==
    Cardinality({p \in DOMAIN y : (p - 1) % n_splits = i /\ SortedLabels(y)[p] = k})

\* np.arange(n_splits).repeat(allocation[:, k])
FoldsForClass(y, n_splits, k) ==
    [p \in 1..ClassCount(y, k) |->
        CHOOSE i \in 0..(n_splits - 1) :
            LET before == SumSeq([q \in 1..i |-> Allocation(y, n_splits, q - 1, k)])
            IN  before < p /\ p <= before + Allocation(y, n_splits, i, k)]

Perms(m) == {f \in [1..m -> 1..m] : \A a, b \in 1..m : f[a] = f[b] => a = b}

Identity(m) == [p \in 1..m |-> p]

\* np.random.RandomState(seed).shuffle applied to the folds of class 0, then
\* to those of class 1, on the one generator: the permutations MT19937
\* (seeded by init_genrand, indices drawn by masked rejection from the
\* 32-bit outputs) produces for arrays of counts[1] and counts[2] elements.
\* Element p of a permutation is the position the p-th element of the
\* shuffled array came from.  Tabulated for the seeds and class sizes below;
\* the second permutation depends on how many outputs the first consumed.
MersenneTwisterShuffles(seed, counts) ==
    CASE seed = 0 /\ counts = <<2, 2>> -> << <<2, 1>>, <<1, 2>> >>
      [] seed = 0 /\ counts = <<2, 3>> -> << <<2, 1>>, <<3, 1, 2>> >>
      [] seed = 0 /\ counts = <<3, 2>> -> << <<3, 2, 1>>, <<1, 2>> >>
      [] seed = 0 /\ counts = <<3, 3>> -> << <<3, 2, 1>>, <<3, 1, 2>> >>
      [] seed = 1 /\ counts = <<2, 2>> -> << <<1, 2>>, <<1, 2>> >>
      [] seed = 1 /\ counts = <<2, 3>> -> << <<1, 2>>, <<2, 3, 1>> >>
      [] seed = 1 /\ counts = <<3, 2>> -> << <<1, 3, 2>>, <<2, 1>> >>
      [] seed = 1 /\ counts = <<3, 3>> -> << <<1, 3, 2>>, <<2, 3, 1>> >>
      [] seed = 7 /\ counts = <<2, 2>> -> << <<1, 2>>, <<2, 1>> >>
      [] seed = 7 /\ counts = <<2, 3>> -> << <<1, 2>>, <<3, 2, 1>> >>
      [] seed = 7 /\ counts = <<3, 2>> -> << <<3, 2, 1>>, <<2, 1>> >>
      [] seed = 7 /\ counts = <<3, 3>> -> << <<3, 2, 1>>, <<1, 2, 3>> >>
      [] seed = 42 /\ counts = <<2, 2>> -> << <<2, 1>>, <<1, 2>> >>
      [] seed = 42 /\ counts = <<2, 3>> -> << <<2, 1>>, <<2, 3, 1>> >>
      [] seed = 42 /\ counts = <<3, 2>> -> << <<1, 2, 3>>, <<2, 1>> >>
      [] seed = 42 /\ counts = <<3, 3>> -> << <<1, 2, 3>>, <<2, 3, 1>> >>
      [] seed = 1234 /\ counts = <<2, 2>> -> << <<1, 2>>, <<1, 2>> >>
      [] seed = 1234 /\ counts = <<2, 3>> -> << <<1, 2>>, <<1, 2, 3>> >>
      [] seed = 1234 /\ counts = <<3, 2>> -> << <<1, 2, 3>>, <<2, 1>> >>
      [] seed = 1234 /\ counts = <<3, 3>> -> << <<1, 2, 3>>, <<2, 3, 1>> >>

\* The permutation the generator seeded with `seed` applies to the folds of
\* encoded class k of y.
SeededPermutation(seed, y, k) ==
    MersenneTwisterShuffles(seed, [c \in 1..NClasses(y) |-> ClassCount(y, c - 1)])[k + 1]

AllShuffles(y) ==
    {rng \in [0..(NClasses(y) - 1) ->
                UNION {Perms(ClassCount(y, k)) : k \in 0..(NClasses(y) - 1)}] :
        \A k \in 0..(NClasses(y) - 1) : DOMAIN rng[k] = 1..ClassCount(y, k)}

\* Faulty variant: the seed does not fix the draw.
Shuffles_unseeded(y, random_state, shuffle) ==
    {[k \in 0..(NClasses(y) - 1) |-> SeededPermutation(s, y, k)] :
        s \in {random_state.seed, 0}}

\* The draws rng.shuffle can make, one permutation per encoded class: every
\* draw when random_state is None, the seed's draw otherwise, none without
\* shuffle.
Shuffles(y, random_state, shuffle) ==
    IF ~shuffle THEN {[k \in 0..(NClasses(y) - 1) |-> Identity(ClassCount(y, k))]}
    ELSE IF random_state = None THEN AllShuffles(y)
    ELSE {[k \in 0..(NClasses(y) - 1) |-> SeededPermutation(random_state.seed, y, k)]}

\* test_folds[i]: the fold (0-based) that tests sample i;
\* test_folds[y_encoded == k] = folds_for_class after the shuffle.
TestFolds(y, n_splits, rng) ==
    LET e == Encoded(y)
    IN  [i \in DOMAIN y |->
            LET k == e[i]
                pos == Cardinality({q \in DOMAIN y : q <= i /\ e[q] = k})
            IN  FoldsForClass(y, n_splits, k)[rng[k][pos]]]

\* [[train_index, test_index] for ... in skf.split(X, y)]
SkfSplit(y, n_splits, rng) ==
    LET test_folds == TestFolds(y, n_splits, rng)
    IN  [j \in 1..n_splits |->
            LET test == {i \in DOMAIN y : test_folds[i] = j - 1}
            IN  <<DOMAIN y \ test, test>>]

\* ------------------------------------------------------------------------
\* The estimator factory (gridsearch.method) and the scoring function
\* ------------------------------------------------------------------------
\* Deterministic estimator/scoring pairs the caller can configure.  Each is
\* a function of the estimator's own parameters and of the samples it was
\* fitted and scored on; some raise, one scores NaN.
Methods == {"by_param", "by_fold", "constant", "nan_score",
            "ctor_raises", "fit_raises", "score_raises"}

ParamSum(params) == SumSeq([k \in DOMAIN params |-> params[k][2]])

NoClf == [live |-> FALSE, params |-> <<>>, is_fitted |-> FALSE, fitted |-> {}]

\* kwargs: None, or a dict of extra keyword arguments for every estimator.
NoKwargs == [given |-> FALSE, items |-> <<>>]
Kwargs(items) == [given |-> TRUE, items |-> items]

\* The keyword arguments of the call self.method(**params) when kwargs is
\* None, self.method(**params, **self.kwargs) otherwise.
CallKeywords(params, kwargs) == IF kwargs.given THEN params \o kwargs.items ELSE params

\* clf = self.method(...): the call raises TypeError when a keyword is given
\* by both params and kwargs; the estimator holds the merged arguments.
Construct(method, params, kwargs) ==
    LET keywords == CallKeywords(params, kwargs)
    IN  IF \/ kwargs.given /\ Keys(params) \cap Keys(kwargs.items) # {}
           \/ method = "ctor_raises" /\ ParamSum(keywords) = 2
        THEN [raised |-> TRUE, clf |-> NoClf]
        ELSE [raised |-> FALSE,
              clf |-> [live |-> TRUE, params |-> keywords, is_fitted |-> FALSE,
                       fitted |-> {}]]

\* clf.fit(X[train_index], y[train_index])
ClfFit(method, c, train) ==
    IF ~c.live \/ (method = "fit_raises" /\ ParamSum(c.params) = 2 /\ {1, 2} \cap train = {})
    THEN [raised |-> TRUE, clf |-> c]
    ELSE [raised |-> FALSE, clf |-> [c EXCEPT !.is_fitted = TRUE, !.fitted = train]]

\* self.scoring(y[test_index], clf.predict(X[test_index]))
ClfScore(method, c, test) ==
    IF \/ ~c.live
       \/ ~c.is_fitted
       \/ method = "score_raises" /\ ParamSum(c.params) = 2 /\ {1, 2} \subseteq test
    THEN [raised |-> TRUE, score |-> NaN]
    ELSE [raised |-> FALSE,
          score |->
            CASE method = "by_fold" ->
                    Num(ParamSum(c.params) * SetMin(test) + SetMax(c.fitted), 1)
              [] method = "constant" -> Num(1, 1)
              [] method = "nan_score" /\ ParamSum(c.params) = 2 -> NaN
              [] OTHER -> Num(ParamSum(c.params), 1)]

\* _eval run on its own, from the construction of the estimator to the
\* last fold: the scores it appends, and whether it raised on the way.
RECURSIVE eval_folds(_, _, _, _, _)
eval_folds(method, c, splits, j, scores) ==
    IF j > Len(splits) THEN [raised |-> FALSE, scores |-> scores]
    ELSE LET f == ClfFit(method, c, splits[j][1])
             sc == ClfScore(method, f.clf, splits[j][2])
         IN  IF f.raised \/ sc.raised THEN [raised |-> TRUE, scores |-> scores]
             ELSE eval_folds(method, f.clf, splits, j + 1, Append(scores, sc.score))

eval_alone(method, splits, params, kwargs) ==
    LET c == Construct(method, params, kwargs)
    IN  IF c.raised THEN [raised |-> TRUE, scores |-> <<>>]
        ELSE eval_folds(method, c.clf, splits, 1, <<>>)

\* ------------------------------------------------------------------------
\* The inputs
\* ------------------------------------------------------------------------
DefaultSeed == 1234

Y4 == <<0, 1, 0, 1>>
Y6 == <<0, 1, 0, 1, 0, 1>>

\* (y, cv, random_state) the search is run with, and the largest number of
\* candidates it is run with on them; every one is a valid StratifiedKFold
\* configuration (cv <= the size of each class).
Configs ==
    {[y |-> Y4, cv |-> 2, random_state |-> Seed(DefaultSeed), candidates |-> 4],
     [y |-> Y4, cv |-> 2, random_state |-> Seed(7), candidates |-> 3],
     [y |-> Y4, cv |-> 2, random_state |-> None, candidates |-> 2],
     [y |-> Y6, cv |-> 3, random_state |-> Seed(DefaultSeed), candidates |-> 2],
     [y |-> Y6, cv |-> 2, random_state |-> Seed(7), candidates |-> 2]}

\* grid_params dicts, items in the caller's insertion order.
GridChoices ==
    { <<>>,
      << <<"C", <<1, 2>> >> >>,
      << <<"C", <<2, 1, 2>> >> >>,
      << <<"C", <<1, 1>> >> >>,
      << <<"gamma", <<1, 2>> >>, <<"C", <<0, 1>> >> >>,
      << <<"C", <<1, 3>> >>, <<"gamma", <<1>> >> >> }

\* n_jobs values the search is constructed with; -1 (the default) is every
\* core.
NJobsChoices == {1, -1}

\* kwargs values the search is constructed with; None is the default.
KwargsChoices ==
    {NoKwargs, Kwargs(<< <<"gamma", 5>> >>), Kwargs(<< <<"C", 5>> >>)}

\* BatchCompletionCallBack.batch_size: Parallel runs the threading and the
\* sequential backend with batches of one task.
BatchSize == 1

\* joblib's effective number of workers: n_jobs < 0 counts back from the
\* number of cores.
EffectiveJobs(n_jobs) == IF n_jobs < 0 THEN NCores + 1 + n_jobs ELSE n_jobs

\* ------------------------------------------------------------------------
\* State
\* ------------------------------------------------------------------------
VARIABLES
    y,                        \* the label vector (X has the same positions)
    self,                     \* the gridsearch object
    pc,                       \* "idle", or "parallel" inside fit's with block
    jobs,                     \* one _eval call per grid point: its locals
    clf,                      \* the estimator instances the _eval calls made
    out,                      \* the list Parallel is assembling
    done_order,               \* candidates in order of completion
    BatchCompletionCallBack,  \* joblib.parallel.BatchCompletionCallBack
    old_batch_callback,       \* tqdm_joblib's local
    progress_bar,             \* the tqdm object
    pre,                      \* self as it was when fit was called
    outcome,                  \* how the last fit call ended
    nfits,                    \* fit calls so far
    skf,                      \* a StratifiedKFoldTestPredictions call
    cm                        \* a confusion_matrix call

gsvars == <<y, self, pc, jobs, clf, out, done_order, BatchCompletionCallBack,
            old_batch_callback, progress_bar, pre, outcome, nfits>>

vars == <<gsvars, skf, cm>>

OriginalCallBack == "BatchCompletionCallBack"
TqdmCallBack == "TqdmBatchCompletionCallback"

ResultAttrs == {"scoring_results_", "best_index_", "best_params_", "best_score_"}

\* gridsearch.__init__
gridsearch(method, grid_params, cv, n_jobs, random_state, kwargs) ==
    [method |-> method, grid_params |-> grid_params, cv |-> cv, n_jobs |-> n_jobs,
     random_state |-> random_state, kwargs |-> kwargs,
     attrs |-> {},                 \* the attributes fit has assigned so far
     k_fold_splits |-> <<>>, scoring_results_ |-> <<>>, best_index_ |-> -1,
     best_params_ |-> <<>>, best_score_ |-> <<>>]

NoRecord == <<<<>>, <<>>, NaN>>

NoBar == [state |-> "none", n |-> 0, total |-> 0]

InitGridsearch ==
    /\ \E cfg \in Configs, g \in GridChoices, m \in Methods,
          n_jobs \in NJobsChoices, kwargs \in KwargsChoices :
          /\ Len(ParameterGrid(g)) <= cfg.candidates
          /\ y = cfg.y
          /\ self = gridsearch(m, g, cfg.cv, n_jobs, cfg.random_state, kwargs)
    /\ pc = "idle"
    /\ jobs = <<>>
    /\ clf = <<>>
    /\ out = <<>>
    /\ done_order = <<>>
    /\ BatchCompletionCallBack = OriginalCallBack
    /\ old_batch_callback = OriginalCallBack
    /\ progress_bar = NoBar
    /\ pre = self
    /\ outcome = "none"
    /\ nfits = 0

NoKFoldCall ==
    [pc |-> "idle", y |-> <<>>, k |-> 0, splits |-> <<>>, fold |-> 1, preds |-> <<>>,
     clf |-> [is_fitted |-> FALSE, fitted |-> {}], log |-> <<>>, exc |-> "none"]

NoMatrixCall ==
    [pc |-> "idle", preds |-> <<>>, y |-> <<>>, normalize |-> FALSE,
     raised |-> FALSE, table |-> <<>>]

Init ==
    /\ InitGridsearch
    /\ skf = NoKFoldCall
    /\ cm = NoMatrixCall

\* ------------------------------------------------------------------------
\* gridsearch
\* ------------------------------------------------------------------------
\* _train_test_split: the partitions StratifiedKFold(n_splits=cv,
\* random_state=random_state, shuffle=True).split can return.
TrainTestSplits(s, labels) ==
    {SkfSplit(labels, s.cv, rng) : rng \in Shuffles(labels, s.random_state, TRUE)}

\* tqdm_joblib, entering the block: the value the global is set to.
tqdm_joblib_enter(current) == TqdmCallBack

\* Faulty variant: the restore is skipped when the block raises.
tqdm_joblib_exit_no_finally(old, raised) == IF raised THEN TqdmCallBack ELSE old

\* tqdm_joblib, leaving the block (the finally clause): the value the
\* global is set back to, whether or not the block raised.
tqdm_joblib_exit(old, raised) == old

\* Faulty variant: later candidates iterate the folds backwards.
EvalFold_reordered(splits, i, j) ==
    IF i = 1 THEN splits[j] ELSE splits[Len(splits) + 1 - j]

\* The j-th [train_index, test_index] pair candidate i's _eval iterates.
EvalFold(splits, i, j) == splits[j]

\* Faulty variant: one estimator instance shared by every candidate.
ClfSlot_shared(i) == 1

\* The estimator instance candidate i's _eval uses: its own local.
ClfSlot(i) == i

\* Faulty variant: results collected in order of completion.
ResultSlot_completion(i, ndone) == ndone + 1

\* Where Parallel puts candidate i's return value in the list it returns:
\* at the position of its task, whatever finished before it.
ResultSlot(i, ndone) == i

\* Faulty variant: a failed task is swallowed and the rest returned.
ParallelResult_salvage(js, results) == [raised |-> FALSE, value |-> results]

\* What the Parallel(...)(...) call does once no task is left to wait for:
\* it raises if a task raised, and returns the list otherwise.
ParallelResult(js, results) ==
    [raised |-> \E i \in DOMAIN js : js[i].st = "raised", value |-> results]

\* The tasks a worker thread is inside _eval for.
Running == {i \in DOMAIN jobs : jobs[i].st = "running"}

\* The tasks Parallel has nothing left to wait for.
Finished == {i \in DOMAIN jobs : jobs[i].st \in {"done", "raised"}}

\* fit(X, y), up to the dispatch of the tasks.
Fit_Call ==
    /\ pc = "idle"
    /\ nfits < MaxFits
    /\ \E splits \in TrainTestSplits(self, y) :
          self' = [self EXCEPT !.k_fold_splits = splits,
                               !.attrs = @ \cup {"k_fold_splits"}]
    /\ LET grid_params == ParameterGrid(self.grid_params)
       IN  /\ jobs' = [i \in DOMAIN grid_params |->
                        [st |-> "pending", params |-> grid_params[i], fold |-> 1,
                         stage |-> "fit", scores |-> <<>>, seen |-> <<>>,
                         result |-> NoRecord]]
           /\ clf' = [i \in DOMAIN grid_params |-> NoClf]
           /\ out' = [i \in DOMAIN grid_params |-> NoRecord]
           /\ progress_bar' = [state |-> "open", n |-> 0, total |-> Len(grid_params)]
    /\ done_order' = <<>>
    /\ old_batch_callback' = BatchCompletionCallBack
    /\ BatchCompletionCallBack' = tqdm_joblib_enter(BatchCompletionCallBack)
    /\ pre' = self
    /\ outcome' = "running"
    /\ nfits' = nfits + 1
    /\ pc' = "parallel"
    /\ UNCHANGED <<y, skf, cm>>

\* A worker takes the next task and _eval constructs its estimator.  Tasks
\* are taken in dispatch order, at most n_jobs at a time; with n_jobs = 1
\* they run in the calling thread, one after the other up to the first
\* exception.
Eval_Construct(i) ==
    /\ pc = "parallel"
    /\ jobs[i].st = "pending"
    /\ \A j \in 1..(i - 1) : jobs[j].st # "pending"
    /\ Cardinality(Running) < EffectiveJobs(self.n_jobs)
    /\ EffectiveJobs(self.n_jobs) = 1 => \A j \in 1..(i - 1) : jobs[j].st = "done"
    /\ LET r == Construct(self.method, jobs[i].params, self.kwargs)
       IN  IF r.raised
           THEN /\ jobs' = [jobs EXCEPT ![i].st = "raised"]
                /\ UNCHANGED clf
           ELSE /\ jobs' = [jobs EXCEPT ![i].st = "running"]
                /\ clf' = [clf EXCEPT ![ClfSlot(i)] = r.clf]
    /\ UNCHANGED <<y, self, pc, out, done_order, BatchCompletionCallBack,
                   old_batch_callback, progress_bar, pre, outcome, nfits, skf, cm>>

\* _eval: clf.fit on the training indices of the current fold.
Eval_Fit(i) ==
    /\ pc = "parallel"
    /\ jobs[i].st = "running"
    /\ jobs[i].stage = "fit"
    /\ LET pair == EvalFold(self.k_fold_splits, i, jobs[i].fold)
           r == ClfFit(self.method, clf[ClfSlot(i)], pair[1])
       IN  IF r.raised
           THEN /\ jobs' = [jobs EXCEPT ![i].st = "raised"]
                /\ UNCHANGED clf
           ELSE /\ jobs' = [jobs EXCEPT ![i].stage = "score",
                                        ![i].seen = Append(@, pair)]
                /\ clf' = [clf EXCEPT ![ClfSlot(i)] = r.clf]
    /\ UNCHANGED <<y, self, pc, out, done_order, BatchCompletionCallBack,
                   old_batch_callback, progress_bar, pre, outcome, nfits, skf, cm>>

\* _eval: predict and score the held-out indices of the current fold; after
\* the last fold return [params, scores, np.mean(scores)].
Eval_Score(i) ==
    /\ pc = "parallel"
    /\ jobs[i].st = "running"
    /\ jobs[i].stage = "score"
    /\ LET pair == EvalFold(self.k_fold_splits, i, jobs[i].fold)
           r == ClfScore(self.method, clf[ClfSlot(i)], pair[2])
           scores == Append(jobs[i].scores, r.score)
       IN  IF r.raised
           THEN jobs' = [jobs EXCEPT ![i].st = "raised"]
           ELSE IF jobs[i].fold < Len(self.k_fold_splits)
           THEN jobs' = [jobs EXCEPT ![i].scores = scores,
                                     ![i].fold = @ + 1,
                                     ![i].stage = "fit"]
           ELSE jobs' = [jobs EXCEPT ![i].scores = scores,
                                     ![i].st = "returned",
                                     ![i].result = <<jobs[i].params, scores, Mean(scores)>>]
    /\ UNCHANGED <<y, self, pc, clf, out, done_order, BatchCompletionCallBack,
                   old_batch_callback, progress_bar, pre, outcome, nfits, skf, cm>>

\* joblib takes the value _eval returned for task i and keeps it for the
\* list Parallel returns; whether it does so before or after the completion
\* callback depends on the joblib release.
Task_Store(i) ==
    /\ pc = "parallel"
    /\ jobs[i].st \in {"returned", "reported"}
    /\ jobs' = [jobs EXCEPT ![i].st = IF @ = "returned" THEN "stored" ELSE "done"]
    /\ out' = [out EXCEPT ![ResultSlot(i, Len(done_order))] = jobs[i].result]
    /\ done_order' = Append(done_order, i)
    /\ UNCHANGED <<y, self, pc, clf, BatchCompletionCallBack,
                   old_batch_callback, progress_bar, pre, outcome, nfits, skf, cm>>

\* joblib calls the completion callback of task i's batch, an instance of
\* TqdmBatchCompletionCallback: tqdm_object.update(n=self.batch_size).
TqdmBatchCompletionCallback_call(i) ==
    /\ pc = "parallel"
    /\ jobs[i].st \in {"returned", "stored"}
    /\ jobs' = [jobs EXCEPT ![i].st = IF @ = "returned" THEN "reported" ELSE "done"]
    /\ progress_bar' = [progress_bar EXCEPT !.n = @ + BatchSize]
    /\ UNCHANGED <<y, self, pc, clf, out, done_order, BatchCompletionCallBack,
                   old_batch_callback, pre, outcome, nfits, skf, cm>>

\* A task raised: Parallel raises, the with block is left through
\* tqdm_joblib's finally clause, and fit raises without assigning anything.
Fit_Raise ==
    /\ pc = "parallel"
    /\ \E i \in DOMAIN jobs : jobs[i].st = "raised"
    /\ ParallelResult(jobs, out).raised
    /\ BatchCompletionCallBack' = tqdm_joblib_exit(old_batch_callback, TRUE)
    /\ progress_bar' = [progress_bar EXCEPT !.state = "closed"]
    /\ outcome' = "raised"
    /\ pc' = "idle"
    /\ UNCHANGED <<y, self, jobs, clf, out, done_order, old_batch_callback, pre, nfits,
                   skf, cm>>

\* Every task is over and Parallel returns: the with block is left, and fit
\* assigns scoring_results_, best_index_, best_params_ and best_score_.
Fit_Return ==
    /\ pc = "parallel"
    /\ Finished = DOMAIN jobs
    /\ ~ParallelResult(jobs, out).raised
    /\ LET results == ParallelResult(jobs, out).value
           best == ArgMax([i \in DOMAIN results |-> results[i][3]])
       IN  self' = [self EXCEPT
                      !.scoring_results_ = results,
                      !.best_index_ = best,
                      !.best_params_ = results[best + 1][1],
                      !.best_score_ = <<Mean(results[best + 1][2]),
                                        Std(results[best + 1][2])>>,
                      !.attrs = @ \cup ResultAttrs]
    /\ BatchCompletionCallBack' = tqdm_joblib_exit(old_batch_callback, FALSE)
    /\ progress_bar' = [progress_bar EXCEPT !.state = "closed"]
    /\ outcome' = "ok"
    /\ pc' = "idle"
    /\ UNCHANGED <<y, jobs, clf, out, done_order, old_batch_callback, pre, nfits,
                   skf, cm>>

Next ==
    \/ Fit_Call
    \/ \E i \in DOMAIN jobs : Eval_Construct(i)
    \/ \E i \in DOMAIN jobs : Eval_Fit(i)
    \/ \E i \in DOMAIN jobs : Eval_Score(i)
    \/ \E i \in DOMAIN jobs : Task_Store(i)
    \/ \E i \in DOMAIN jobs : TqdmBatchCompletionCallback_call(i)
    \/ Fit_Raise
    \/ Fit_Return

Spec == Init /\ [][Next]_vars

\* ------------------------------------------------------------------------
\* StratifiedKFoldTestPredictions
\* ------------------------------------------------------------------------
\* What a call of the estimator can raise.
ExcKinds == {"TypeError", "ValueError", "KeyboardInterrupt"}

\* What np.empty_like(y) can hold before it is written.
GarbageValues == {0, 7}

\* The arrays clf.predict can return for the test positions.
Predictions(labels, test) ==
    {[i \in test |-> labels[i]], [i \in test |-> 0], [i \in test |-> 1]}

KFoldConfigs ==
    {[y |-> Y4, k |-> 2], [y |-> Y6, k |-> 3], [y |-> <<1, 1, 1, 0, 0, 0>>, k |-> 2]}

\* Faulty variant: only the unsupported-keyword error is caught.
Caught_keyword_only(kind) == kind = "TypeError"

\* The bare except clause: what the try statement catches.
Caught(kind) == TRUE

\* skf = StratifiedKFold(n_splits=k); preds = np.empty_like(y); the loop
\* starts on the first fold of skf.split(X, y).
KFold_Call(cfg, garbage) ==
    /\ skf.pc = "idle"
    /\ skf' = [pc |-> "try", y |-> cfg.y, k |-> cfg.k,
               splits |-> CHOOSE sp \in {SkfSplit(cfg.y, cfg.k, rng) :
                                           rng \in Shuffles(cfg.y, None, FALSE)} : TRUE,
               fold |-> 1,
               preds |-> [i \in DOMAIN cfg.y |-> garbage],
               clf |-> [is_fitted |-> FALSE, fitted |-> {}],
               log |-> <<>>, exc |-> "none"]
    /\ UNCHANGED <<gsvars, cm>>

\* try: clf.fit(X[train_index], y[train_index], n_jobs=n_jobs)
KFold_FitHint(result) ==
    /\ skf.pc = "try"
    /\ LET train == skf.splits[skf.fold][1]
           entry == [op |-> "fit_hint", fold |-> skf.fold, idx |-> train,
                     result |-> result]
       IN  skf' = IF result = "ok"
                  THEN [skf EXCEPT !.log = Append(@, entry), !.pc = "predict",
                                   !.clf = [is_fitted |-> TRUE, fitted |-> train]]
                  ELSE IF Caught(result)
                  THEN [skf EXCEPT !.log = Append(@, entry), !.pc = "retry"]
                  ELSE [skf EXCEPT !.log = Append(@, entry), !.pc = "raised",
                                   !.exc = result]
    /\ UNCHANGED <<gsvars, cm>>

\* except: clf.fit(X[train_index], y[train_index])
KFold_FitPlain(result) ==
    /\ skf.pc = "retry"
    /\ LET train == skf.splits[skf.fold][1]
           entry == [op |-> "fit", fold |-> skf.fold, idx |-> train, result |-> result]
       IN  skf' = IF result = "ok"
                  THEN [skf EXCEPT !.log = Append(@, entry), !.pc = "predict",
                                   !.clf = [is_fitted |-> TRUE, fitted |-> train]]
                  ELSE [skf EXCEPT !.log = Append(@, entry), !.pc = "raised",
                                   !.exc = result]
    /\ UNCHANGED <<gsvars, cm>>

\* preds[test_index] = clf.predict(X[test_index]); next fold, or return preds
KFold_Predict(result) ==
    /\ skf.pc = "predict"
    /\ LET test == skf.splits[skf.fold][2]
           entry == [op |-> "predict", fold |-> skf.fold, idx |-> test,
                     result |-> result]
       IN  IF result = "ok"
           THEN \E predicted \in Predictions(skf.y, test) :
                  skf' = [skf EXCEPT
                            !.log = Append(@, entry),
                            !.preds = [i \in DOMAIN skf.preds |->
                                         IF i \in test THEN predicted[i] ELSE skf.preds[i]],
                            !.fold = IF skf.fold < Len(skf.splits) THEN @ + 1 ELSE @,
                            !.pc = IF skf.fold < Len(skf.splits) THEN "try"
                                   ELSE "returned"]
           ELSE skf' = [skf EXCEPT !.log = Append(@, entry), !.pc = "raised",
                                   !.exc = result]
    /\ UNCHANGED <<gsvars, cm>>

\* No gridsearch object is in use.
NoGridsearch ==
    /\ y = <<>>
    /\ self = gridsearch("constant", <<>>, 0, 1, None, NoKwargs)
    /\ pc = "idle"
    /\ jobs = <<>>
    /\ clf = <<>>
    /\ out = <<>>
    /\ done_order = <<>>
    /\ BatchCompletionCallBack = OriginalCallBack
    /\ old_batch_callback = OriginalCallBack
    /\ progress_bar = NoBar
    /\ pre = self
    /\ outcome = "none"
    /\ nfits = 0

InitKFold ==
    /\ NoGridsearch
    /\ skf = NoKFoldCall
    /\ cm = NoMatrixCall

NextKFold ==
    \/ \E cfg \in KFoldConfigs, garbage \in GarbageValues : KFold_Call(cfg, garbage)
    \/ \E result \in {"ok"} \cup ExcKinds : KFold_FitHint(result)
    \/ \E result \in {"ok"} \cup ExcKinds : KFold_FitPlain(result)
    \/ \E result \in {"ok"} \cup ExcKinds : KFold_Predict(result)

SpecKFold == InitKFold /\ [][NextKFold]_vars

\* ------------------------------------------------------------------------
\* confusion_matrix
\* ------------------------------------------------------------------------
FloatAdd(a, b) ==
    IF a.den = b.den THEN Num(a.num + b.num, a.den)
    ELSE Num(a.num * b.den + b.num * a.den, a.den * b.den)

\* The sorted distinct values of a vector.
SortedUnique(v) ==
    [r \in 1..Cardinality(Range(v)) |->
        CHOOSE a \in Range(v) : Cardinality({b \in Range(v) : b < a}) = r - 1]

RECURSIVE Gcd(_, _)
Gcd(a, b) == IF b = 0 THEN a ELSE Gcd(b, a % b)

\* The fractions k/40 and k/200 in lowest terms, 0 < k/den < 1, whose
\* nearest double times 100 is a double above the midpoint of two integers
\* (for every other k it is a double below the midpoint).
AboveMidpoint40 == {3, 7, 11, 19, 27, 31, 39}
AboveMidpoint200 ==
    {3, 7, 11, 19, 23, 27, 31, 39, 43, 47, 51, 59, 63, 67, 71, 79, 83, 87, 91, 99,
     103, 107, 109, 111, 119, 123, 127, 131, 139, 143, 147, 151, 159, 163, 167,
     171, 179, 183, 187, 191, 199}

\* np.round to `scale` = 10^decimals of the double nearest x, 0 <= x <= 1:
\* the double is multiplied by scale, rounded to the nearest integer (half
\* to even) and divided by scale.  The product is on the side of a midpoint
\* the exact value is on, except when the exact value is the midpoint: then
\* the product is the midpoint when x is a double (its denominator a power
\* of two), and is off it otherwise, to a side the doubles decide (two
\* decimals: denominators 40 and 200).
RoundHalfEven(x, scale) ==
    LET q == (x.num * scale) \div x.den
        r == (x.num * scale) % x.den
        g == Gcd(x.num, x.den)
        num == x.num \div g
        den == x.den \div g
    IN  Num(IF 2 * r < x.den THEN q
            ELSE IF 2 * r > x.den THEN q + 1
            ELSE CASE den \in {1, 2, 4, 8} -> IF q % 2 = 0 THEN q ELSE q + 1
                   [] scale = 100 /\ den = 40 ->
                        IF num \in AboveMidpoint40 THEN q + 1 ELSE q
                   [] scale = 100 /\ den = 200 ->
                        IF num \in AboveMidpoint200 THEN q + 1 ELSE q,
            scale)

\* Faulty variant: one decimal instead of two.
Round2_one_decimal(x) == RoundHalfEven(x, 10)

\* DataFrame.round(2), one cell
Round2(x) == RoundHalfEven(x, 100)

\* pd.crosstab(preds, y, margins=True, margins_name='total',
\* normalize=normalize): one row per distinct prediction and one column per
\* distinct label, then the 'total' row and column; with normalize=True the
\* cells and the margins are divided by the number of samples and the
\* corner is 1.
Crosstab(preds, labels, normalize) ==
    LET rows == SortedUnique(preds)
        cols == SortedUnique(labels)
        n == Len(preds)
        d == IF normalize THEN n ELSE 1
        count(r, c) == Cardinality({i \in DOMAIN preds :
                                       preds[i] = rows[r] /\ labels[i] = cols[c]})
        rowsum(r) == Cardinality({i \in DOMAIN preds : preds[i] = rows[r]})
        colsum(c) == Cardinality({i \in DOMAIN preds : labels[i] = cols[c]})
    IN  [r \in 1..(Len(rows) + 1) |->
            [c \in 1..(Len(cols) + 1) |->
                IF r <= Len(rows) /\ c <= Len(cols) THEN Num(count(r, c), d)
                ELSE IF r <= Len(rows) THEN Num(rowsum(r), d)
                ELSE IF c <= Len(cols) THEN Num(colsum(c), d)
                ELSE IF normalize THEN Num(1, 1) ELSE Num(n, 1)]]

\* confusion_matrix(preds, y, normalize): the rows and columns are
\* relabelled [0, 1, 'total'], which raises unless there are three of each;
\* the cells are rounded to 2 decimals.  table[r][c]: r, c = 1, 2 for the
\* labels 0, 1 and 3 for 'total'.
confusion_matrix(preds, labels, normalize) ==
    LET t == Crosstab(preds, labels, normalize)
    IN  IF Len(t) # 3 \/ Len(t[1]) # 3
        THEN [raised |-> TRUE, table |-> <<>>]
        ELSE [raised |-> FALSE,
              table |-> [r \in 1..3 |-> [c \in 1..3 |-> Round2(t[r][c])]]]

BinaryVectors(n) == [1..n -> {0, 1}]

ConfusionMatrix_Call(preds, labels, normalize) ==
    /\ cm.pc = "idle"
    /\ LET res == confusion_matrix(preds, labels, normalize)
       IN  cm' = [pc |-> "returned", preds |-> preds, y |-> labels,
                  normalize |-> normalize, raised |-> res.raised, table |-> res.table]
    /\ UNCHANGED <<gsvars, skf>>

NextConfusion ==
    \E n \in 1..MaxLen : \E preds \in BinaryVectors(n), labels \in BinaryVectors(n) :
        \E normalize \in BOOLEAN : ConfusionMatrix_Call(preds, labels, normalize)

InitConfusion ==
    /\ NoGridsearch
    /\ skf = NoKFoldCall
    /\ cm = NoMatrixCall

SpecConfusion == InitConfusion /\ [][NextConfusion]_vars

\* ------------------------------------------------------------------------
\* Properties
\* ------------------------------------------------------------------------
Results == self.scoring_results_

Means == [i \in DOMAIN Results |-> Results[i][3]]

FitSucceeded == pc = "idle" /\ outcome = "ok"

SomeRaised == \E i \in DOMAIN jobs : jobs[i].st = "raised"

\* One position in the value list of every parameter name.
Choices(grid) ==
    {ch \in [Keys(grid) -> 1..SetMax({1} \cup {Len(grid[k][2]) : k \in DOMAIN grid})] :
        \A k \in DOMAIN grid : ch[grid[k][1]] <= Len(grid[k][2])}

\* The parameter mapping a choice stands for, as a set of items.
Mapping(grid, ch) == {<<grid[k][1], grid[k][2][ch[grid[k][1]]]>> : k \in DOMAIN grid}

\* C1: a successful fit leaves one record per element of the Cartesian
\* product of the grid: as many records as elements, and every mapping of
\* the product is the parameters of exactly as many records as there are
\* elements with that mapping, whatever n_jobs is.
C1_OneRecordPerGridPoint ==
    FitSucceeded =>
        LET grid == self.grid_params
        IN  /\ Len(Results) = Cardinality(Choices(grid))
            /\ \A i \in DOMAIN Results : Len(Results[i][1]) = Len(grid)
            /\ \A ch \in Choices(grid) :
                  Cardinality({i \in DOMAIN Results :
                                  Range(Results[i][1]) = Mapping(grid, ch)})
                  = Cardinality({c2 \in Choices(grid) :
                                   Mapping(grid, c2) = Mapping(grid, ch)})

C1_Witness ==
    FitSucceeded /\ Len(self.grid_params) = 2 /\ Len(Results) = 4 /\ self.n_jobs = -1

IsMaximum(i) == \A j \in DOMAIN Means : FloatGe(Means[i], Means[j])

\* C2 as stated: after a successful fit the record at best_index_ has a mean
\* score >= every record's mean score, no earlier record has, and
\* best_params_ is that record's parameter mapping.
C2_BestIsFirstMaximum ==
    FitSucceeded =>
        LET b == self.best_index_ + 1
        IN  /\ b \in DOMAIN Results
            /\ IsMaximum(b)
            /\ \A j \in 1..(b - 1) : ~IsMaximum(j)
            /\ self.best_params_ = Results[b][1]

\* C2 amended: after a successful fit, if some record's mean score is NaN,
\* best_index_ is the index of the first such record; otherwise it is the
\* smallest index whose mean score is the maximum; best_params_ is the
\* parameter mapping of the record at best_index_.
C2_BestIsFirstNaNOrFirstMaximum ==
    FitSucceeded =>
        LET b == self.best_index_ + 1
        IN  /\ b \in DOMAIN Results
            /\ IF \E i \in DOMAIN Means : Means[i].nan
               THEN Means[b].nan /\ \A j \in 1..(b - 1) : ~Means[j].nan
               ELSE IsMaximum(b) /\ \A j \in 1..(b - 1) : ~IsMaximum(j)
            /\ self.best_params_ = Results[b][1]

C2_Witness ==
    /\ FitSucceeded
    /\ \A i \in DOMAIN Means : ~Means[i].nan
    /\ \E i, j \in DOMAIN Means :
          /\ i < j /\ self.best_index_ + 1 = i
          /\ FloatEq(Means[i], Means[j])
          /\ \E k \in DOMAIN Means : ~FloatGe(Means[k], Means[i])

\* C3: within a fit call the partition is in place before any candidate is
\* evaluated, every _eval iterates the pairs of that one list in its order,
\* and on success every record holds cv scores, one per fold in fold order.
C3_SameFoldsForEveryCandidate ==
    /\ pc = "parallel" =>
          /\ "k_fold_splits" \in self.attrs
          /\ Len(self.k_fold_splits) = self.cv
          /\ \A i \in DOMAIN jobs :
                /\ Len(jobs[i].seen) <= self.cv
                /\ jobs[i].seen = SubSeq(self.k_fold_splits, 1, Len(jobs[i].seen))
    /\ FitSucceeded =>
          \A i \in DOMAIN jobs :
             /\ jobs[i].seen = self.k_fold_splits
             /\ Len(Results[i][2]) = self.cv

C3_Witness ==
    FitSucceeded /\ self.cv = 3 /\ Len(Results) >= 2 /\ self.n_jobs = -1

\* C4: whatever the order in which the workers complete, the i-th record of
\* scoring_results_ is the record of the i-th element of the enumeration.
C4_ResultsInEnumerationOrder ==
    FitSucceeded =>
        /\ Len(Results) = Len(ParameterGrid(self.grid_params))
        /\ \A i \in DOMAIN Results :
              /\ Results[i][1] = ParameterGrid(self.grid_params)[i]
              /\ Results[i][2] = jobs[i].scores

C4_Witness ==
    /\ FitSucceeded
    /\ \E p, q \in DOMAIN done_order : p < q /\ done_order[p] > done_order[q]
    /\ \E i, j \in DOMAIN Results : Results[i][1] # Results[j][1]

\* C5: once a candidate's evaluation has raised, the fit call can only end
\* by raising, and scoring_results_, best_index_, best_params_ and
\* best_score_ are as they were when fit was called.
C5_RaiseAssignsNothing ==
    SomeRaised =>
        /\ pc = "idle" => outcome = "raised"
        /\ self.attrs \cap ResultAttrs = pre.attrs \cap ResultAttrs
        /\ \A a \in ResultAttrs : self[a] = pre[a]

C5_Witness ==
    /\ pc = "idle" /\ outcome = "raised"
    /\ \E i \in DOMAIN jobs : jobs[i].st = "done"
    /\ "scoring_results_" \in self.attrs

\* The records a search gets by evaluating the grid points one after the
\* other, each on its own, on the partition `splits`.
SequentialResults(s, splits) ==
    LET grid_params == ParameterGrid(s.grid_params)
    IN  [i \in DOMAIN grid_params |->
            LET alone == eval_alone(s.method, splits, grid_params[i], s.kwargs)
            IN  <<grid_params[i], alone.scores, Mean(alone.scores)>>]

\* C6: with an integer random_state, a successful fit has the one partition
\* the seed determines and the records of the sequential evaluation of the
\* grid on it, for every n_jobs and every thread schedule; and a successful
\* fit that follows an earlier successful fit of the same search (same X, y,
\* grid, cv, estimator and scoring) has the same partition, records,
\* best_index_, best_params_ and best_score_ as the earlier one.
C6_SeededFitIsDeterministic ==
    (FitSucceeded /\ self.random_state.seeded) =>
        /\ TrainTestSplits(self, y) = {self.k_fold_splits}
        /\ self.scoring_results_ = SequentialResults(self, self.k_fold_splits)
        /\ "scoring_results_" \in pre.attrs =>
              /\ self.k_fold_splits = pre.k_fold_splits
              /\ self.scoring_results_ = pre.scoring_results_
              /\ self.best_index_ = pre.best_index_
              /\ self.best_params_ = pre.best_params_
              /\ self.best_score_ = pre.best_score_

C6_Witness ==
    /\ FitSucceeded /\ "scoring_results_" \in pre.attrs /\ self.random_state.seeded
    /\ self.method = "by_fold"
    /\ self.n_jobs = -1
    /\ \E p, q \in DOMAIN done_order : p < q /\ done_order[p] > done_order[q]
    /\ \E i, j \in DOMAIN Results : Results[i][3] # Results[j][3]

\* C8: every _eval works on an estimator constructed with its own
\* parameters (and the search's kwargs), the worker threads assign no
\* attribute of the gridsearch object, and under every interleaving the scores a candidate
\* has so far, and its record when it is done, are those of evaluating the
\* candidate alone.
C8_CandidatesAreIndependent ==
    pc = "parallel" =>
        /\ \A a \in DOMAIN self \ {"k_fold_splits", "attrs"} : self[a] = pre[a]
        /\ self.attrs = pre.attrs \cup {"k_fold_splits"}
        /\ \A i \in DOMAIN jobs :
              LET alone == eval_alone(self.method, self.k_fold_splits, jobs[i].params,
                                      self.kwargs)
                  n == Len(jobs[i].scores)
              IN  /\ jobs[i].st \in {"running", "returned", "stored", "reported", "done"} =>
                        /\ clf[i].live
                        /\ clf[i].params = CallKeywords(jobs[i].params, self.kwargs)
                        /\ n <= Len(alone.scores)
                        /\ jobs[i].scores = SubSeq(alone.scores, 1, n)
                  /\ jobs[i].st \in {"returned", "stored", "reported", "done"} =>
                        /\ ~alone.raised
                        /\ jobs[i].result =
                              <<jobs[i].params, alone.scores, Mean(alone.scores)>>
                  /\ jobs[i].st \in {"stored", "done"} => out[i] = jobs[i].result
                  /\ jobs[i].st = "raised" => alone.raised

C8_Witness ==
    /\ pc = "parallel"
    /\ self.kwargs.given
    /\ \E k \in DOMAIN jobs : jobs[k].st = "stored"
    /\ \E i, j \in Running :
          /\ i # j
          /\ jobs[i].stage = "score" /\ jobs[j].stage = "fit"
          /\ jobs[i].fold < jobs[j].fold
          /\ jobs[i].params # jobs[j].params

\* C10: joblib.parallel.BatchCompletionCallBack is the patched class only
\* inside fit's with block; when no fit call is running, after any sequence
\* of successful and failing calls, it is the original value again (the
\* value saved on entry) and the progress bar is not open.
C10_CallbackRestored ==
    /\ pc = "parallel" =>
          /\ BatchCompletionCallBack = TqdmCallBack
          /\ old_batch_callback = OriginalCallBack
          /\ progress_bar.state = "open"
    /\ pc = "idle" =>
          /\ BatchCompletionCallBack = OriginalCallBack
          /\ BatchCompletionCallBack = old_batch_callback
          /\ progress_bar.state = IF nfits = 0 THEN "none" ELSE "closed"

C10_Witness ==
    pc = "idle" /\ outcome = "raised" /\ nfits >= 2 /\ "scoring_results_" \notin self.attrs

\* C7: in StratifiedKFoldTestPredictions every fold starts with a fit that
\* passes the n_jobs hint; exactly when that call raises, whatever it
\* raises, one fit without the hint follows on the same training indices;
\* what that second call raises propagates; and predict on a fold's test
\* indices comes only right after a fit on the fold's training indices that
\* returned.
C7_RetryWithoutHint ==
    LET L == skf.log
        TrainOf(fold) == skf.splits[fold][1]
        TestOf(fold) == skf.splits[fold][2]
    IN  \A p \in DOMAIN L :
          /\ L[p].op = "fit_hint" =>
                /\ L[p].idx = TrainOf(L[p].fold)
                /\ p = 1 \/ (L[p - 1].op = "predict" /\ L[p - 1].result = "ok"
                             /\ L[p - 1].fold + 1 = L[p].fold)
                /\ IF L[p].result = "ok"
                   THEN IF p < Len(L) THEN L[p + 1].op = "predict"
                        ELSE skf.pc = "predict"
                   ELSE IF p < Len(L)
                        THEN /\ L[p + 1].op = "fit"
                             /\ L[p + 1].fold = L[p].fold
                             /\ L[p + 1].idx = L[p].idx
                        ELSE skf.pc = "retry"
          /\ L[p].op = "fit" =>
                /\ p > 1 /\ L[p - 1].op = "fit_hint" /\ L[p - 1].result # "ok"
                /\ IF L[p].result = "ok"
                   THEN IF p < Len(L) THEN L[p + 1].op = "predict"
                        ELSE skf.pc = "predict"
                   ELSE p = Len(L) /\ skf.pc = "raised" /\ skf.exc = L[p].result
          /\ L[p].op = "predict" =>
                /\ p > 1 /\ L[p - 1].op \in {"fit_hint", "fit"}
                /\ L[p - 1].result = "ok"
                /\ L[p - 1].fold = L[p].fold
                /\ L[p - 1].idx = TrainOf(L[p].fold)
                /\ L[p].idx = TestOf(L[p].fold)

C7_Witness ==
    /\ skf.pc = "returned"
    /\ \E p \in DOMAIN skf.log :
          /\ skf.log[p].op = "fit_hint" /\ skf.log[p].result = "ValueError"
          /\ skf.log[p + 1].op = "fit" /\ skf.log[p + 1].result = "ok"
    /\ \E p \in DOMAIN skf.log :
          skf.log[p].op = "fit_hint" /\ skf.log[p].result = "ok"

Within(a, b, tol) == FloatLe(a, FloatAdd(b, tol)) /\ FloatLe(b, FloatAdd(a, tol))

BothClassesOccur ==
    cm.pc = "returned" /\ Range(cm.preds) = {0, 1} /\ Range(cm.y) = {0, 1}

CellSum ==
    FloatAdd(FloatAdd(cm.table[1][1], cm.table[1][2]),
             FloatAdd(cm.table[2][1], cm.table[2][2]))

\* C9 as stated: when both classes occur among the predictions and among
\* the labels, every row's and every column's 'total' entry equals the sum
\* of its two class entries, and with normalize=True the four class cells
\* sum to 1.0 within the rounding of the cells.
C9_MarginsAreSums ==
    BothClassesOccur =>
        /\ ~cm.raised
        /\ \A r \in 1..3 :
              FloatEq(cm.table[r][3], FloatAdd(cm.table[r][1], cm.table[r][2]))
        /\ \A c \in 1..3 :
              FloatEq(cm.table[3][c], FloatAdd(cm.table[1][c], cm.table[2][c]))
        /\ cm.normalize => Within(CellSum, Num(1, 1), Num(2, 100))

\* C9 amended: when both classes occur among the predictions and among the
\* labels, with normalize=False every 'total' entry equals the sum of its
\* row's/column's two class entries; with normalize=True it is within 0.01
\* of that sum and the four class cells sum to 1.0 within 0.02.
C9_MarginsAreSumsUpToRounding ==
    BothClassesOccur =>
        LET tol == IF cm.normalize THEN Num(1, 100) ELSE Num(0, 1)
        IN  /\ ~cm.raised
            /\ \A r \in 1..3 :
                  Within(cm.table[r][3], FloatAdd(cm.table[r][1], cm.table[r][2]), tol)
            /\ \A c \in 1..3 :
                  Within(cm.table[3][c], FloatAdd(cm.table[1][c], cm.table[2][c]), tol)
            /\ cm.normalize => Within(CellSum, Num(1, 1), Num(2, 100))

C9_Witness ==
    /\ BothClassesOccur /\ cm.normalize /\ ~cm.raised
    /\ ~FloatEq(cm.table[1][3], FloatAdd(cm.table[1][1], cm.table[1][2]))
    /\ ~FloatEq(CellSum, Num(1, 1))

====
